---- MODULE Spec2Model ----
(***************************************************************************)
(* Model of streamlit2/main.py: one run of the dashboard script.  Streamlit *)
(* re-executes the whole script on every interaction, so a run is the       *)
(* script from line 32 to its end, with the widget values and the files on  *)
(* disk as inputs.  pc is the position of the run in the script.            *)
(***************************************************************************)
EXTENDS Integers, Sequences, FiniteSets, TLC

\* ------------------------------------------------------------------ bounds
MaxRows == 2        \* rows of the active entity's CSV file
MaxOtherRows == 2   \* rows of a comparison entity's CSV file
MaxFRows == 3       \* rows of a forecast CSV file
MaxDay == 1         \* calendar days are 0..MaxDay
TicksPerDay == 2    \* instants per calendar day: tick 0 is midnight

\* --------------------------------------------------- column labels as text
\* A label is a sequence of characters, so that strip() and lower() are
\* computed on the text and not assumed.
UpperChars == <<"A", "B", "C", "D", "E", "F", "G", "H", "I", "J", "K", "L", "M",
                "N", "O", "P", "Q", "R", "S", "T", "U", "V", "W", "X", "Y", "Z">>
LowerChars == <<"a", "b", "c", "d", "e", "f", "g", "h", "i", "j", "k", "l", "m",
                "n", "o", "p", "q", "r", "s", "t", "u", "v", "w", "x", "y", "z">>
Whitespace == {" ", "\t", "\n", "\r"}

\* the letter-to-letter table of lower()
ToLower ==
    [c \in {UpperChars[i] : i \in 1..Len(UpperChars)} |->
        LowerChars[CHOOSE i \in 1..Len(UpperChars) : UpperChars[i] = c]]

LowerChar(c) == IF c \in DOMAIN ToLower THEN ToLower[c] ELSE c

\* str.lower()
Lower(s) == [i \in 1..Len(s) |-> LowerChar(s[i])]

RECURSIVE LStrip(_)
LStrip(s) == IF s # <<>> /\ Head(s) \in Whitespace THEN LStrip(Tail(s)) ELSE s

RECURSIVE RStrip(_)
RStrip(s) ==
    IF s # <<>> /\ s[Len(s)] \in Whitespace
    THEN RStrip(SubSeq(s, 1, Len(s) - 1))
    ELSE s

\* str.strip()
Strip(s) == RStrip(LStrip(s))

\* lower() without strip()
NormalizeLabelNoStrip(col) == Lower(col)

\* [col.strip().lower() for col in df.columns]
NormalizeLabel(col) == Lower(Strip(col))
NormalizeColumnsOf(cols) == [i \in 1..Len(cols) |-> NormalizeLabel(cols[i])]

\* "x" in df.columns
HasColumn(cols, x) == \E i \in 1..Len(cols) : cols[i] = x

\* the literals the script looks up
DATE == <<"d", "a", "t", "e">>
CLOSE == <<"c", "l", "o", "s", "e">>
REAL_CLOSE == <<"r", "e", "a", "l", "_", "c", "l", "o", "s", "e">>
PREDICTED_CLOSE == <<"p", "r", "e", "d", "i", "c", "t", "e", "d", "_",
                     "c", "l", "o", "s", "e">>
expected_cols == {REAL_CLOSE, PREDICTED_CLOSE, DATE}

\* labels as they may be written in a file
PaddedDate == <<" ", "D", "a", "t", "e", " ">>
TabbedClose == <<"C", "L", "O", "S", "E", "\t">>
SplitDate == <<"d", " ", "a", "t", "e">>
OpenLabel == <<"O", "p", "e", "n">>
PaddedReal == <<"R", "e", "a", "l", "_", "C", "l", "o", "s", "e", " ">>
UpperPredicted == <<" ", "P", "R", "E", "D", "I", "C", "T", "E", "D", "_",
                    "C", "L", "O", "S", "E">>

\* ------------------------------------------------------------ dates, rows
\* A date cell of a file is a calendar day and a time of day; pd.to_datetime
\* turns it into an instant, Timestamp.date() keeps the calendar day, and
\* pd.to_datetime(<date>) is that day's midnight.
DateCells == [day : 0..MaxDay, tod : 0..(TicksPerDay - 1)]
ToDatetime(cell) == cell.day * TicksPerDay + cell.tod
DateOf(ts) == ts \div TicksPerDay
DateToDatetime(d) == d * TicksPerDay

Closes == {1, 2}
RowCells == [date : DateCells, close : Closes]
OtherRowCells == [date : [day : {0, 1}, tod : {0, 1}], close : {2}]

SeqsUpTo(S, n) == UNION {[1..k -> S] : k \in 0..n}

\* df["date"] = pd.to_datetime(df["date"])
ParseDates(rows) ==
    [i \in 1..Len(rows) |-> [date |-> ToDatetime(rows[i].date), close |-> rows[i].close]]

\* insertion of r into the date-sorted s; equal dates keep file order when
\* stable, and are reversed otherwise
RECURSIVE InsertByDate(_, _, _)
InsertByDate(r, s, stable) ==
    IF s = <<>> THEN <<r>>
    ELSE IF r.date > s[Len(s)].date \/ (r.date = s[Len(s)].date /\ stable)
         THEN Append(s, r)
         ELSE Append(InsertByDate(r, SubSeq(s, 1, Len(s) - 1), stable), s[Len(s)])

RECURSIVE SortPrefix(_, _, _)
SortPrefix(rows, n, stable) ==
    IF n = 0 THEN <<>>
    ELSE InsertByDate(rows[n], SortPrefix(rows, n - 1, stable), stable)

\* no sort: the rows stay in file order
SortValuesUnsorted(rows, stable) == rows

RECURSIVE DropRepeatedDates(_)
DropRepeatedDates(s) ==
    IF s = <<>> THEN <<>>
    ELSE IF \E i \in 1..(Len(s) - 1) : s[i].date = s[Len(s)].date
         THEN DropRepeatedDates(SubSeq(s, 1, Len(s) - 1))
         ELSE Append(DropRepeatedDates(SubSeq(s, 1, Len(s) - 1)), s[Len(s)])

\* a sort that also keeps one row per date
SortValuesUnique(rows, stable) == DropRepeatedDates(SortPrefix(rows, Len(rows), stable))

\* df.sort_values("date"): ascending; the default kind is quicksort, which
\* does not promise the order of rows with equal dates
SortValues(rows, stable) == SortPrefix(rows, Len(rows), stable)

RECURSIVE SelectRows(_, _, _)
SelectRows(rows, lo, hi) ==
    IF rows = <<>> THEN <<>>
    ELSE IF Head(rows).date >= lo /\ Head(rows).date <= hi
         THEN <<Head(rows)>> \o SelectRows(Tail(rows), lo, hi)
         ELSE SelectRows(Tail(rows), lo, hi)

\* the upper bound taken as exclusive
FilterRangeExclusive(rows, range) ==
    SelectRows(rows, DateToDatetime(range[1]), DateToDatetime(range[2]) - 1)

\* df[(df["date"] >= pd.to_datetime(r[0])) & (df["date"] <= pd.to_datetime(r[1]))]
FilterRange(rows, range) ==
    SelectRows(rows, DateToDatetime(range[1]), DateToDatetime(range[2]))

\* df["date"].min().date(), df["date"].max().date()
MinDate(rows) == DateOf(CHOOSE t \in {rows[i].date : i \in 1..Len(rows)} :
                          \A j \in 1..Len(rows) : t <= rows[j].date)
MaxDate(rows) == DateOf(CHOOSE t \in {rows[i].date : i \in 1..Len(rows)} :
                          \A j \in 1..Len(rows) : t >= rows[j].date)

RECURSIVE SumClose(_)
SumClose(rows) == IF rows = <<>> THEN 0 ELSE Head(rows).close + SumClose(Tail(rows))

\* ------------------------------------------------------------------ files
\* three of the six entries of files, by ticker symbol
Entities == {"AAPL", "ABNB", "GOOG"}

\* files whose header has the columns, with the given rows, and files whose
\* header lacks one, whose rows the script never looks at
CsvFiles(valid, rows, invalid, unread) ==
    [header : valid, rows : rows] \cup [header : invalid, rows : unread]

ValidHeaders == { <<DATE, CLOSE>>, <<PaddedDate, TabbedClose>> }
InvalidHeaders == { <<DATE, OpenLabel>>, <<TabbedClose, OpenLabel>>, <<SplitDate, CLOSE>> }
SmallValidHeaders == { <<PaddedDate, TabbedClose>> }
SmallInvalidHeaders == { <<DATE, OpenLabel>> }

FirstDayRow == [date |-> [day |-> 0, tod |-> 0], close |-> 1]
SecondDayRow == [date |-> [day |-> 1, tod |-> 0], close |-> 1]
SmallSeriesRows == { <<>>, <<FirstDayRow>>, <<SecondDayRow, FirstDayRow>> }

\* every row sequence under few headers, every header over few row sequences,
\* and few of both
SeriesFiles ==
    CsvFiles(ValidHeaders, SeqsUpTo(RowCells, MaxRows),
             SmallInvalidHeaders, {<<>>})
HeaderFiles ==
    CsvFiles(ValidHeaders, SmallSeriesRows,
             InvalidHeaders, {<<>>, <<FirstDayRow>>})
SmallSeriesFiles ==
    CsvFiles(SmallValidHeaders, SmallSeriesRows,
             SmallInvalidHeaders, {<<>>})
OtherFiles ==
    CsvFiles(SmallValidHeaders, SeqsUpTo(OtherRowCells, MaxOtherRows),
             InvalidHeaders, {<<>>, <<FirstDayRow>>})
    \cup CsvFiles(ValidHeaders, {<<FirstDayRow>>}, {}, {})
SmallOtherFiles ==
    CsvFiles(SmallValidHeaders, {<<FirstDayRow>>},
             SmallInvalidHeaders, {<<>>})

NoFile == [header |-> <<>>, rows |-> <<>>]

\* a forecast file: whether forecast_<symbol>.csv exists, and what it holds
ForecastPool ==
    { [date |-> [day |-> 0, tod |-> 0], real_close |-> 10, predicted_close |-> 12],
      [date |-> [day |-> 1, tod |-> 0], real_close |-> 20, predicted_close |-> 18],
      [date |-> [day |-> 1, tod |-> 0], real_close |-> 30, predicted_close |-> 33] }
SmallForecastPool ==
    { [date |-> [day |-> 1, tod |-> 0], real_close |-> 20, predicted_close |-> 18] }

ValidForecastHeaders ==
    { <<DATE, REAL_CLOSE, PREDICTED_CLOSE>>, <<PaddedDate, PaddedReal, UpperPredicted>> }
InvalidForecastHeaders ==
    { <<DATE, REAL_CLOSE>>, <<PaddedDate, UpperPredicted>>, <<PaddedReal, UpperPredicted>>,
      <<PaddedDate>>, <<PaddedReal>>, <<PREDICTED_CLOSE>>, <<OpenLabel>> }
SmallValidForecastHeaders == { <<PaddedDate, PaddedReal, UpperPredicted>> }
SmallInvalidForecastHeaders == { <<DATE, REAL_CLOSE>>, <<PaddedReal, UpperPredicted>> }

NoForecastFile == [exists |-> FALSE, header |-> <<>>, rows |-> <<>>]

ForecastFilesOf(valid, rows, invalid, unread) ==
    [exists : {TRUE}, header : valid, rows : rows]
    \cup [exists : {TRUE}, header : invalid, rows : unread]
    \cup {NoForecastFile}

ForecastFiles ==
    ForecastFilesOf(SmallValidForecastHeaders, SeqsUpTo(ForecastPool, MaxFRows),
                    InvalidForecastHeaders, SeqsUpTo(SmallForecastPool, 1))
    \cup ForecastFilesOf(ValidForecastHeaders, SeqsUpTo(SmallForecastPool, 1), {}, {})
SmallForecastFiles ==
    ForecastFilesOf(SmallValidForecastHeaders, SeqsUpTo(SmallForecastPool, 1),
                    SmallInvalidForecastHeaders, {<<>>})

\* forecast_df["date"] = pd.to_datetime(forecast_df["date"])
ParseForecastDates(rows) ==
    [i \in 1..Len(rows) |->
        [date |-> ToDatetime(rows[i].date), real_close |-> rows[i].real_close,
         predicted_close |-> rows[i].predicted_close]]

\* forecast_df.melt(id_vars="date", value_vars=["real_close", "predicted_close"],
\*                  var_name="Type", value_name="Price")
Melt(rows) ==
    [i \in 1..Len(rows) |->
        [date |-> rows[i].date, Type |-> "real_close", Price |-> rows[i].real_close]]
    \o
    [i \in 1..Len(rows) |->
        [date |-> rows[i].date, Type |-> "predicted_close",
         Price |-> rows[i].predicted_close]]

\* the signed difference
Signed(x) == x

Abs(x) == IF x < 0 THEN -x ELSE x

RECURSIVE SumAbsError(_)
SumAbsError(rows) ==
    IF rows = <<>> THEN 0
    ELSE Abs(Head(rows).predicted_close - Head(rows).real_close)
         + SumAbsError(Tail(rows))

\* sklearn mean_absolute_error(y_true, y_pred): the average of |y_pred - y_true|
\* over the samples, kept as the exact fraction num / den
MeanAbsoluteError(rows) == [num |-> SumAbsError(rows), den |-> Len(rows)]

\* st.multiselect over the other entities: distinct, in the order picked
Selections(e) ==
    {s \in SeqsUpTo(Entities \ {e}, Cardinality(Entities) - 1) :
        \A i, j \in 1..Len(s) : i # j => s[i] # s[j]}

NoChart == [rendered |-> FALSE, data |-> <<>>]
NoCompare == [rendered |-> FALSE, data |-> <<>>, traces |-> <<>>]
NoForecast == [status |-> "none", columns |-> <<>>, chart |-> <<>>, table |-> <<>>,
               mae |-> [num |-> 0, den |-> 0], mae_shown |-> FALSE]
NoAbout == [rendered |-> FALSE, total |-> 0]
VARIABLES
    pc,                \* position of the run in the script
    selected_company,  \* st.sidebar.selectbox
    csv,               \* what read_csv found in the active entity's file
    df_columns,        \* df.columns
    df,                \* the rows of df
    date_range,        \* the value of st.slider
    df_filtered,
    error_shown,       \* st.error(" Date not found.")
    tab1,              \* the line chart
    tab2,              \* the bar chart
    others,            \* st.multiselect
    done_others,       \* how many of others the loop has been through
    other_csv,         \* what read_csv found in the file of the last other
    tab3,              \* the comparison figure
    forecast_csv,      \* what tab4 found on disk
    tab4,              \* what the forecast tab shows
    about              \* the About expander

vars == <<pc, selected_company, csv, df_columns, df, date_range, df_filtered,
          error_shown, tab1, tab2, others, done_others, other_csv, tab3,
          forecast_csv, tab4, about>>

loadVars == <<selected_company, csv, df_columns, df>>
viewVars == <<tab1, tab2, others, done_others, other_csv, tab3, forecast_csv, tab4, about>>

Init ==
    /\ pc = "select"
    /\ selected_company = ""
    /\ csv = NoFile
    /\ df_columns = <<>>
    /\ df = <<>>
    /\ date_range = <<0, 0>>
    /\ df_filtered = <<>>
    /\ error_shown = FALSE
    /\ tab1 = NoChart
    /\ tab2 = NoChart
    /\ others = <<>>
    /\ done_others = 0
    /\ other_csv = NoFile
    /\ tab3 = NoCompare
    /\ forecast_csv = NoForecastFile
    /\ tab4 = NoForecast
    /\ about = NoAbout

\* lines 32-35
ReadCsv(files) ==
    /\ pc = "select"
    /\ \E e \in Entities, f \in files :
        /\ selected_company' = e
        /\ csv' = f
        /\ df_columns' = f.header
        /\ df' = f.rows
    /\ pc' = "normalize"
    /\ UNCHANGED <<date_range, df_filtered, error_shown, viewVars>>

\* line 38
NormalizeColumns ==
    /\ pc = "normalize"
    /\ df_columns' = NormalizeColumnsOf(df_columns)
    /\ pc' = "check"
    /\ UNCHANGED <<selected_company, csv, df, date_range, df_filtered, error_shown,
                   viewVars>>

\* only the date column looked for
HasDateOnly(cols) == HasColumn(cols, DATE)

\* line 41
HasRequired(cols) == HasColumn(cols, DATE) /\ HasColumn(cols, CLOSE)

\* lines 41-43
Prepare ==
    /\ pc = "check"
    /\ HasRequired(df_columns)
    /\ \E stable \in BOOLEAN : df' = SortValues(ParseDates(df), stable)
    /\ pc' = "slider"
    /\ UNCHANGED <<selected_company, csv, df_columns, date_range, df_filtered,
                   error_shown, viewVars>>

\* lines 166-167
DateNotFound ==
    /\ pc = "check"
    /\ ~HasRequired(df_columns)
    /\ error_shown' = TRUE
    /\ pc' = "done"
    /\ UNCHANGED <<loadVars, date_range, df_filtered, viewVars>>

\* lines 59-62: the slider offers the calendar days min_date..max_date and
\* starts at the full span; any start <= end among them can be the value
SliderRanges(rows) ==
    {<<a, b>> : a \in MinDate(rows)..MaxDate(rows), b \in MinDate(rows)..MaxDate(rows)}
    \cap {r \in (0..MaxDay) \X (0..MaxDay) : r[1] <= r[2]}

Slider ==
    /\ pc = "slider"
    /\ df # <<>>
    /\ \E r \in SliderRanges(df) : date_range' = r
    /\ pc' = "filter"
    /\ UNCHANGED <<loadVars, df_filtered, error_shown, viewVars>>

\* line 59 on a file without rows: min() of no dates is NaT, and NaT.date()
\* raises ValueError
SliderNoRows ==
    /\ pc = "slider"
    /\ df = <<>>
    /\ pc' = "crashed"
    /\ UNCHANGED <<loadVars, date_range, df_filtered, error_shown, viewVars>>

\* lines 63-64
Filter ==
    /\ pc = "filter"
    /\ df_filtered' = FilterRange(df, date_range)
    /\ pc' = "tab1"
    /\ UNCHANGED <<loadVars, date_range, error_shown, viewVars>>

\* lines 70-74
Tab1 ==
    /\ pc = "tab1"
    /\ tab1' = [rendered |-> TRUE, data |-> df_filtered]
    /\ pc' = "tab2"
    /\ UNCHANGED <<loadVars, date_range, df_filtered, error_shown, tab2, others,
                   done_others, other_csv, tab3, forecast_csv, tab4, about>>

\* lines 76-80
Tab2 ==
    /\ pc = "tab2"
    /\ tab2' = [rendered |-> TRUE, data |-> df_filtered]
    /\ pc' = "tab3"
    /\ UNCHANGED <<loadVars, date_range, df_filtered, error_shown, tab1, others,
                   done_others, other_csv, tab3, forecast_csv, tab4, about>>

\* lines 83-87
Tab3Begin ==
    /\ pc = "tab3"
    /\ \E s \in Selections(selected_company) : others' = s
    /\ done_others' = 0
    /\ tab3' = [rendered |-> FALSE, data |-> df_filtered, traces |-> <<>>]
    /\ pc' = "tab3_loop"
    /\ UNCHANGED <<loadVars, date_range, df_filtered, error_shown, tab1, tab2,
                   other_csv, forecast_csv, tab4, about>>

\* lines 88-99: one pass of the loop.  The trace holds the dates and closes in
\* the order sort_values left them; rows of equal date may come either way.
Tab3Other(files) ==
    /\ pc = "tab3_loop"
    /\ done_others < Len(others)
    /\ \E f \in files, stable \in BOOLEAN :
        /\ other_csv' = f
        /\ tab3' =
            IF HasRequired(NormalizeColumnsOf(f.header))
            THEN [tab3 EXCEPT !.traces =
                    Append(@, [name |-> others[done_others + 1],
                               rows |-> FilterRange(SortValues(ParseDates(f.rows), stable),
                                                    date_range)])]
            ELSE tab3
    /\ done_others' = done_others + 1
    /\ UNCHANGED <<pc, loadVars, date_range, df_filtered, error_shown, tab1, tab2,
                   others, forecast_csv, tab4, about>>

\* line 100
Tab3Show ==
    /\ pc = "tab3_loop"
    /\ done_others = Len(others)
    /\ tab3' = [tab3 EXCEPT !.rendered = TRUE]
    /\ pc' = "tab4"
    /\ UNCHANGED <<loadVars, date_range, df_filtered, error_shown, tab1, tab2,
                   others, done_others, other_csv, forecast_csv, tab4, about>>

tab4Frame == <<loadVars, date_range, df_filtered, error_shown, tab1, tab2,
               others, done_others, other_csv, tab3, about>>

\* lines 106, 140-141
Tab4NotFound(ffiles) ==
    /\ pc = "tab4"
    /\ \E f \in ffiles :
        /\ ~f.exists
        /\ forecast_csv' = f
    /\ tab4' = [NoForecast EXCEPT !.status = "warning"]
    /\ pc' = "about"
    /\ UNCHANGED tab4Frame

\* lines 107-110 on a file without a date column: forecast_df["date"] raises
\* KeyError before the columns are checked
Tab4KeyError(ffiles) ==
    /\ pc = "tab4"
    /\ \E f \in ffiles :
        /\ f.exists
        /\ ~HasColumn(NormalizeColumnsOf(f.header), DATE)
        /\ forecast_csv' = f
    /\ pc' = "crashed"
    /\ UNCHANGED <<tab4, tab4Frame>>

\* line 113
HasExpected(cols) == \A c \in expected_cols : HasColumn(cols, c)

\* lines 107-113, 136-139
Tab4SchemaError(ffiles) ==
    /\ pc = "tab4"
    /\ \E f \in ffiles :
        /\ f.exists
        /\ HasColumn(NormalizeColumnsOf(f.header), DATE)
        /\ ~HasExpected(NormalizeColumnsOf(f.header))
        /\ forecast_csv' = f
        /\ tab4' = [NoForecast EXCEPT !.status = "error",
                                      !.columns = NormalizeColumnsOf(f.header)]
    /\ pc' = "about"
    /\ UNCHANGED tab4Frame

RECURSIVE SelectForecastRows(_, _, _)
SelectForecastRows(rows, lo, hi) ==
    IF rows = <<>> THEN <<>>
    ELSE IF Head(rows).date >= lo /\ Head(rows).date <= hi
         THEN <<Head(rows)>> \o SelectForecastRows(Tail(rows), lo, hi)
         ELSE SelectForecastRows(Tail(rows), lo, hi)

\* the forecast restricted to the slider's range
Tab4ChartInRange(ffiles) ==
    /\ pc = "tab4"
    /\ \E f \in ffiles :
        /\ f.exists
        /\ HasExpected(NormalizeColumnsOf(f.header))
        /\ f.rows # <<>>
        /\ forecast_csv' = f
        /\ LET shown == SelectForecastRows(ParseForecastDates(f.rows),
                                           DateToDatetime(date_range[1]),
                                           DateToDatetime(date_range[2]))
           IN tab4' = [status |-> "chart",
                       columns |-> <<>>,
                       chart |-> Melt(shown),
                       table |-> shown,
                       mae |-> MeanAbsoluteError(shown),
                       mae_shown |-> TRUE]
    /\ pc' = "about"
    /\ UNCHANGED tab4Frame

\* lines 107-135
Tab4Chart(ffiles) ==
    /\ pc = "tab4"
    /\ \E f \in ffiles :
        /\ f.exists
        /\ HasExpected(NormalizeColumnsOf(f.header))
        /\ f.rows # <<>>
        /\ forecast_csv' = f
        /\ tab4' = [status |-> "chart",
                    columns |-> <<>>,
                    chart |-> Melt(ParseForecastDates(f.rows)),
                    table |-> ParseForecastDates(f.rows),
                    mae |-> MeanAbsoluteError(ParseForecastDates(f.rows)),
                    mae_shown |-> TRUE]
    /\ pc' = "about"
    /\ UNCHANGED tab4Frame

\* lines 107-131 on a file with the columns and no rows: the chart and the
\* table are drawn, then mean_absolute_error raises ValueError on 0 samples
Tab4NoSamples(ffiles) ==
    /\ pc = "tab4"
    /\ \E f \in ffiles :
        /\ f.exists
        /\ HasExpected(NormalizeColumnsOf(f.header))
        /\ f.rows = <<>>
        /\ forecast_csv' = f
        /\ tab4' = [NoForecast EXCEPT !.status = "chart"]
    /\ pc' = "crashed"
    /\ UNCHANGED tab4Frame

\* lines 144-151 (and the static text of lines 154-164)
About ==
    /\ pc = "about"
    /\ about' = [rendered |-> TRUE, total |-> SumClose(df_filtered)]
    /\ pc' = "done"
    /\ UNCHANGED <<loadVars, date_range, df_filtered, error_shown, tab1, tab2,
                   others, done_others, other_csv, tab3, forecast_csv, tab4>>

Script(files, ofiles, ffiles) ==
    \/ ReadCsv(files)
    \/ NormalizeColumns
    \/ Prepare
    \/ DateNotFound
    \/ Slider
    \/ SliderNoRows
    \/ Filter
    \/ Tab1
    \/ Tab2
    \/ Tab3Begin
    \/ Tab3Other(ofiles)
    \/ Tab3Show
    \/ Tab4NotFound(ffiles)
    \/ Tab4KeyError(ffiles)
    \/ Tab4SchemaError(ffiles)
    \/ Tab4Chart(ffiles)
    \/ Tab4NoSamples(ffiles)
    \/ About

\* lines 32-64: the load and the range filter, over every file of the active
\* entity
NextLoad ==
    \/ ReadCsv(SeriesFiles)
    \/ NormalizeColumns
    \/ Prepare
    \/ DateNotFound
    \/ Slider
    \/ SliderNoRows
    \/ Filter
SpecLoad == Init /\ [][NextLoad]_vars

\* the whole script, over every header of the active entity's file
Next == Script(HeaderFiles, SmallOtherFiles, SmallForecastFiles)
Spec == Init /\ [][Next]_vars

\* the whole script, over every file of the comparison entities
NextCompare == Script(SmallSeriesFiles, OtherFiles, SmallForecastFiles)
SpecCompare == Init /\ [][NextCompare]_vars

\* the whole script, over every forecast file
NextForecast == Script(SmallSeriesFiles, SmallOtherFiles, ForecastFiles)
SpecForecast == Init /\ [][NextForecast]_vars

\* ------------------------------------------------------------- properties
RunEnded == pc \in {"done", "crashed"}

\* df holds the parsed, sorted series
Loaded == pc \notin {"select", "normalize", "check"} /\ ~error_shown

\* lines 63-64 have run
FilterDone ==
    /\ Loaded
    /\ pc \notin {"slider", "filter"}
    /\ pc = "crashed" => tab3.rendered

\* the forecast tab has run, to its end or to an exception
Tab4Done == (pc \in {"about", "done"} /\ ~error_shown) \/ (pc = "crashed" /\ tab3.rendered)

ToUpper ==
    [c \in {LowerChars[i] : i \in 1..Len(LowerChars)} |->
        UpperChars[CHOOSE i \in 1..Len(LowerChars) : LowerChars[i] = c]]

UpperOf(c) == IF c \in DOMAIN ToUpper THEN ToUpper[c] ELSE c

\* label is name in some letter case, between any whitespace
Writes(label, name) ==
    \E a \in 0..Len(label) :
        /\ a + Len(name) <= Len(label)
        /\ \A i \in 1..a : label[i] \in Whitespace
        /\ \A i \in (a + Len(name) + 1)..Len(label) : label[i] \in Whitespace
        /\ \A k \in 1..Len(name) : label[a + k] \in {name[k], UpperOf(name[k])}

FileHas(header, name) == \E i \in 1..Len(header) : Writes(header[i], name)

Count(s, x) == Cardinality({i \in 1..Len(s) : s[i] = x})
SameRows(a, b) ==
    /\ Len(a) = Len(b)
    /\ \A i \in 1..Len(a) : Count(a, a[i]) = Count(b, a[i])

SortedByDate(s) == \A i \in 1..(Len(s) - 1) : s[i].date <= s[i + 1].date

InRange(ts, range) ==
    range[1] * TicksPerDay <= ts /\ ts <= range[2] * TicksPerDay

\* out is the rows of rows whose date is in range, each once, in their order
ExactlyTheRowsIn(out, rows, range) ==
    LET keep == {i \in 1..Len(rows) : InRange(rows[i].date, range)}
    IN /\ Len(out) = Cardinality(keep)
       /\ \E at \in [1..Len(out) -> keep] :
            /\ \A i, j \in 1..Len(out) : i < j => at[i] < at[j]
            /\ \A i \in 1..Len(out) : out[i] = rows[at[i]]

NoViewRendered ==
    /\ ~tab1.rendered /\ ~tab2.rendered /\ ~tab3.rendered
    /\ tab4 = NoForecast
    /\ ~about.rendered

\* C1: once the range filter has run, df_filtered holds exactly the rows of the
\* loaded series whose date lies between the midnights of the selected start
\* and end days (both included), each once and in the order of the loaded
\* series, and the selected range has start <= end.
C1_RangeFilterExact ==
    FilterDone =>
        /\ date_range[1] <= date_range[2]
        /\ ExactlyTheRowsIn(df_filtered, df, date_range)

C1_Witness ==
    /\ FilterDone
    /\ Len(df) = 2
    /\ Len(df_filtered) = 1
    /\ df_filtered[1].date = date_range[2] * TicksPerDay

\* C2: filtering with the full range (min_date, max_date) of the loaded series
\* returns the whole series, whatever the dates' time of day.
C2_FullRangeIdentity ==
    (FilterDone /\ date_range = <<MinDate(df), MaxDate(df)>>) => df_filtered = df

\* C3: a file of the active entity that does not write both date and close
\* (in any letter case, between any whitespace) ends the run in the error
\* state with no chart, no forecast output and no description panel, and
\* without an exception; a file that writes both never enters the error state.
C3_MissingColumn ==
    pc # "select" =>
        IF FileHas(csv.header, DATE) /\ FileHas(csv.header, CLOSE)
        THEN ~error_shown
        ELSE /\ NoViewRendered
             /\ pc # "crashed"
             /\ RunEnded => error_shown

C3_Witness ==
    /\ pc = "done"
    /\ error_shown
    /\ FileHas(csv.header, CLOSE)
    /\ ~FileHas(csv.header, DATE)

\* C4: a forecast file that exists and lacks any of date, real_close,
\* predicted_close gives the error state that lists the file's columns, with
\* no forecast chart and no MAE.
C4_ForecastSchemaError ==
    (Tab4Done /\ forecast_csv.exists
        /\ \E c \in expected_cols : ~FileHas(forecast_csv.header, c))
    => /\ pc # "crashed"
       /\ tab4.status = "error"
       /\ Len(tab4.columns) = Len(forecast_csv.header)
       /\ \A i \in 1..Len(tab4.columns) : Writes(forecast_csv.header[i], tab4.columns[i])
       /\ tab4.chart = <<>>
       /\ ~tab4.mae_shown

\* C5: with a valid file of the active entity, a forecast file that is absent
\* or lacks a required column leaves the line, bar and comparison views and
\* the description panel rendered and the run without an exception; an absent
\* forecast file gives the warning and no forecast chart.
C5_FailureLocality ==
    (RunEnded /\ tab3.rendered
        /\ (~forecast_csv.exists
            \/ \E c \in expected_cols : ~FileHas(forecast_csv.header, c)))
    => /\ pc = "done"
       /\ tab1.rendered /\ tab2.rendered /\ tab3.rendered
       /\ about.rendered
       /\ ~forecast_csv.exists => (tab4.status = "warning" /\ tab4.chart = <<>>)

\* C6, in every state: the comparison figure starts from the filtered series
\* of the active entity, its traces are named after distinct selected
\* entities in the order selected, and with nothing selected it shows what
\* the line view shows.
C6_Figure ==
    /\ pc \in {"tab3_loop", "tab4", "about"} => tab3.data = df_filtered
    /\ tab3.rendered => tab3.data = tab1.data
    /\ (tab3.rendered /\ others = <<>>) => tab3.traces = <<>>
    /\ \E at \in [1..Len(tab3.traces) -> 1..done_others] :
        /\ \A i, j \in 1..Len(tab3.traces) : i < j => at[i] < at[j]
        /\ \A i \in 1..Len(tab3.traces) : tab3.traces[i].name = others[at[i]]

\* C6, in every pass of the loop: a file that writes date and close adds one
\* trace, named after the entity, with exactly the file's rows in the range
\* selected for the active entity, in ascending date; any other file adds
\* nothing and shows no error; the traces before it stay.
C6_Pass ==
    done_others' = done_others + 1 =>
        IF FileHas(other_csv'.header, DATE) /\ FileHas(other_csv'.header, CLOSE)
        THEN /\ Len(tab3'.traces) = Len(tab3.traces) + 1
             /\ SubSeq(tab3'.traces, 1, Len(tab3.traces)) = tab3.traces
             /\ LET t == tab3'.traces[Len(tab3'.traces)]
                    inRange == {i \in 1..Len(other_csv'.rows) :
                                   InRange(ToDatetime(other_csv'.rows[i].date), date_range)}
                IN /\ t.name = others[done_others']
                   /\ SortedByDate(t.rows)
                   /\ Len(t.rows) = Cardinality(inRange)
                   /\ \A i \in inRange :
                        Count(t.rows, [date |-> ToDatetime(other_csv'.rows[i].date),
                                       close |-> other_csv'.rows[i].close])
                        = Cardinality({j \in inRange : other_csv'.rows[j] = other_csv'.rows[i]})
             /\ tab3'.data = tab3.data
        ELSE /\ tab3' = tab3
             /\ error_shown' = error_shown
             /\ pc' = "tab3_loop"

\* C6: the comparison view holds the active entity's filtered series and one
\* trace per selected entity whose file has date and close, over the same
\* range; entities lacking a column are passed over silently.
C6_ComparisonOverlay == []C6_Figure /\ [][C6_Pass]_vars

C6_Witness ==
    /\ tab3.rendered
    /\ Len(others) = 2
    /\ Len(tab3.traces) = 1
    /\ tab3.traces[1].name = others[2]
    /\ tab3.traces[1].rows # <<>>
    /\ Len(other_csv.rows) = MaxOtherRows
    /\ FileHas(other_csv.header, DATE) /\ FileHas(other_csv.header, CLOSE)

\* C7: the loaded series is in non-decreasing date order and holds the rows
\* of the file, each as often as the file does.
C7_LoaderOrdering ==
    Loaded =>
        /\ SortedByDate(df)
        /\ SameRows(df, [i \in 1..Len(csv.rows) |->
                            [date |-> csv.rows[i].date.day * TicksPerDay
                                      + csv.rows[i].date.tod,
                             close |-> csv.rows[i].close]])

C7_Witness ==
    /\ Loaded
    /\ Len(df) = 2
    /\ df[1].date < df[2].date
    /\ df[1].close = csv.rows[2].close
    /\ df[1].close # csv.rows[1].close
    /\ csv.header = <<PaddedDate, TabbedClose>>

UniqueDates(rows) == \A i, j \in 1..Len(rows) : i # j => rows[i].date # rows[j].date

\* C8 as stated: no two rows of the loaded series have the same date.
C8_UniqueDates == Loaded => UniqueDates(df)

\* C8 as amended: the loader keeps every row, so the loaded series has unique
\* dates exactly when no two rows of the file have the same date; a file with
\* two rows of one date loads both.
C8_UniqueIffFileUnique ==
    Loaded => /\ UniqueDates(df) <=> UniqueDates(csv.rows)
              /\ Len(df) = Len(csv.rows)

C8_Witness ==
    /\ Loaded
    /\ Len(df) = 2
    /\ df[1].date = df[2].date
    /\ df[1].close # df[2].close

RECURSIVE SumOver(_, _)
SumOver(I, f) ==
    IF I = {} THEN 0
    ELSE LET i == CHOOSE k \in I : TRUE IN f[i] + SumOver(I \ {i}, f)

RealColumn(rows) == [i \in 1..Len(rows) |-> rows[i].real_close]
PredictedColumn(rows) == [i \in 1..Len(rows) |-> rows[i].predicted_close]

\* C9: the MAE shown is sum_i |real_i - predicted_i| over n, for the n >= 1
\* rows of the forecast file taken row by row; for real 10, 20, 30 against
\* predicted 12, 18, 33 it is 7 over 3.
C9_MeanAbsoluteError ==
    tab4.mae_shown =>
        LET rows == forecast_csv.rows
            diff == [i \in 1..Len(rows) |->
                        IF rows[i].real_close >= rows[i].predicted_close
                        THEN rows[i].real_close - rows[i].predicted_close
                        ELSE rows[i].predicted_close - rows[i].real_close]
        IN /\ tab4.mae.den = Len(rows)
           /\ tab4.mae.den >= 1
           /\ tab4.mae.num = SumOver(1..Len(rows), diff)
           /\ (RealColumn(rows) = <<10, 20, 30>> /\ PredictedColumn(rows) = <<12, 18, 33>>)
                => (tab4.mae.num = 7 /\ tab4.mae.den = 3)

C9_Witness ==
    /\ tab4.mae_shown
    /\ RealColumn(forecast_csv.rows) = <<10, 20, 30>>
    /\ PredictedColumn(forecast_csv.rows) = <<12, 18, 33>>
    /\ tab4.mae = [num |-> 7, den |-> 3]

\* C10: what the forecast tab shows is fixed by the forecast file alone, so
\* runs that differ in the slider's range or in the entities compared show
\* the same: no file gives the warning, a file without date the exception, a
\* file lacking another column the error with its columns, and a complete
\* file the chart and the table of all its rows, in or out of the range, and
\* the MAE over all of them.  The range does restrict the line, bar and
\* comparison views and the total.
C10_ForecastIgnoresRange ==
    /\ Tab4Done =>
        LET f == forecast_csv
            n == Len(f.rows)
        IN IF ~f.exists
           THEN pc # "crashed" /\ tab4 = [NoForecast EXCEPT !.status = "warning"]
           ELSE IF ~FileHas(f.header, DATE)
           THEN pc = "crashed" /\ tab4 = NoForecast
           ELSE IF \E c \in expected_cols : ~FileHas(f.header, c)
           THEN /\ pc # "crashed"
                /\ tab4.status = "error"
                /\ tab4.chart = <<>> /\ tab4.table = <<>> /\ ~tab4.mae_shown
                /\ Len(tab4.columns) = Len(f.header)
                /\ \A i \in 1..Len(f.header) : Writes(f.header[i], tab4.columns[i])
           ELSE IF n = 0
           THEN pc = "crashed" /\ tab4 = [NoForecast EXCEPT !.status = "chart"]
           ELSE /\ pc # "crashed"
                /\ tab4.status = "chart"
                /\ Len(tab4.table) = n
                /\ \A i \in 1..n :
                    /\ tab4.table[i].date = f.rows[i].date.day * TicksPerDay + f.rows[i].date.tod
                    /\ tab4.table[i].real_close = f.rows[i].real_close
                    /\ tab4.table[i].predicted_close = f.rows[i].predicted_close
                /\ Len(tab4.chart) = 2 * n
                /\ \A i \in 1..n :
                    /\ tab4.chart[i] = [date |-> tab4.table[i].date, Type |-> "real_close",
                                        Price |-> f.rows[i].real_close]
                    /\ tab4.chart[n + i] = [date |-> tab4.table[i].date,
                                            Type |-> "predicted_close",
                                            Price |-> f.rows[i].predicted_close]
                /\ tab4.mae_shown
                /\ tab4.mae.den = n
                /\ tab4.mae.num = SumOver(1..n, [i \in 1..n |->
                        IF f.rows[i].real_close >= f.rows[i].predicted_close
                        THEN f.rows[i].real_close - f.rows[i].predicted_close
                        ELSE f.rows[i].predicted_close - f.rows[i].real_close])
    /\ tab1.rendered => ExactlyTheRowsIn(tab1.data, df, date_range)
    /\ tab2.rendered => ExactlyTheRowsIn(tab2.data, df, date_range)
    /\ tab3.rendered => ExactlyTheRowsIn(tab3.data, df, date_range)
    /\ about.rendered =>
        about.total = SumOver({i \in 1..Len(df) : InRange(df[i].date, date_range)},
                              [i \in 1..Len(df) |-> df[i].close])

\* the range leaves out a day of the forecast, which the forecast tab shows
C10_Witness ==
    /\ pc = "done"
    /\ tab4.status = "chart"
    /\ Len(df_filtered) < Len(df)
    /\ \E i \in 1..Len(tab4.table) : ~InRange(tab4.table[i].date, date_range)
    /\ others # <<>>
====
